---- MODULE Spec2Model ----
(***************************************************************************)
(* Restock recommender (src/src/restock_recommender.py): the two parsers,  *)
(* the reorder decision engine, the reporter and the command-line run.     *)
(*                                                                         *)
(* Python floats are IEEE 754 binary64.  The engine divides, multiplies,   *)
(* adds, subtracts, compares, truncates (int) and rounds (round(x, 2))     *)
(* them, and the outcome of a comparison or a truncation can rest on the   *)
(* last bit, so the arithmetic is modelled exactly: a float is a 53-bit    *)
(* mantissa m (a natural number kept as a sequence of 15-bit limbs, least  *)
(* significant first) and an exponent e, standing for m * 2^e.  The values *)
(* of the model stay far from the subnormal and the overflow range.        *)
(***************************************************************************)
EXTENDS Integers, Sequences, FiniteSets, TLC

(***************************************************************************)
(* Natural numbers of any size: <<>> is 0, no leading zero limb.           *)
(***************************************************************************)
LimbBits == 15

Base == 2 ^ LimbBits

MantBits == 53

RECURSIVE BigNorm(_)
BigNorm(a) ==
    IF a = <<>> THEN a
    ELSE IF a[Len(a)] = 0 THEN BigNorm(SubSeq(a, 1, Len(a) - 1)) ELSE a

RECURSIVE BigFromInt(_)
BigFromInt(n) ==
    IF n = 0 THEN <<>> ELSE <<n % Base>> \o BigFromInt(n \div Base)

RECURSIVE BigToInt(_)
BigToInt(a) ==
    IF a = <<>> THEN 0 ELSE a[1] + Base * BigToInt(Tail(a))

RECURSIVE BigAddC(_, _, _)
BigAddC(a, b, c) ==
    IF a = <<>> /\ b = <<>> THEN (IF c = 0 THEN <<>> ELSE <<c>>)
    ELSE LET x == IF a = <<>> THEN 0 ELSE a[1]
             y == IF b = <<>> THEN 0 ELSE b[1]
             s == x + y + c
         IN  <<s % Base>> \o BigAddC(IF a = <<>> THEN a ELSE Tail(a),
                                     IF b = <<>> THEN b ELSE Tail(b),
                                     s \div Base)

BigAdd(a, b) == BigAddC(a, b, 0)

RECURSIVE BigSubB(_, _, _)
BigSubB(a, b, borrow) ==
    IF a = <<>> THEN <<>>
    ELSE LET y == IF b = <<>> THEN 0 ELSE b[1]
             s == a[1] - y - borrow
         IN  <<IF s < 0 THEN s + Base ELSE s>>
             \o BigSubB(Tail(a), IF b = <<>> THEN b ELSE Tail(b),
                        IF s < 0 THEN 1 ELSE 0)

\* a - b for a >= b
BigSub(a, b) == BigNorm(BigSubB(a, b, 0))

RECURSIVE BigCmpFrom(_, _, _)
BigCmpFrom(a, b, i) ==
    IF i = 0 THEN 0
    ELSE IF a[i] # b[i] THEN (IF a[i] < b[i] THEN -1 ELSE 1)
    ELSE BigCmpFrom(a, b, i - 1)

\* -1, 0 or 1 as a < b, a = b, a > b
BigCmp(a, b) ==
    IF Len(a) # Len(b) THEN (IF Len(a) < Len(b) THEN -1 ELSE 1)
    ELSE BigCmpFrom(a, b, Len(a))

RECURSIVE BigMulC(_, _, _)
BigMulC(a, k, c) ==
    IF a = <<>> THEN (IF c = 0 THEN <<>> ELSE <<c>>)
    ELSE LET s == a[1] * k + c
         IN  <<s % Base>> \o BigMulC(Tail(a), k, s \div Base)

\* a * k for 0 <= k < Base
BigMulSmall(a, k) == IF k = 0 THEN <<>> ELSE BigMulC(a, k, 0)

BigDouble(a) == BigAddC(a, a, 0)

BigHalf(a) ==
    BigNorm([i \in 1..Len(a) |->
                (a[i] \div 2)
                + (IF i < Len(a) THEN (a[i + 1] % 2) * (Base \div 2) ELSE 0)])

BigIsOdd(a) == a # <<>> /\ a[1] % 2 = 1

RECURSIVE SmallBitLen(_)
SmallBitLen(n) == IF n = 0 THEN 0 ELSE 1 + SmallBitLen(n \div 2)

BigBitLen(a) ==
    IF a = <<>> THEN 0 ELSE LimbBits * (Len(a) - 1) + SmallBitLen(a[Len(a)])

RECURSIVE BigShl(_, _)
BigShl(a, k) ==
    IF a = <<>> \/ k = 0 THEN a
    ELSE IF k >= LimbBits THEN <<0>> \o BigShl(a, k - LimbBits)
    ELSE BigMulSmall(a, 2 ^ k)

\* bit j of a, bit 0 being the lowest
BigBit(a, j) ==
    LET i == (j \div LimbBits) + 1
    IN  IF i > Len(a) THEN 0 ELSE (a[i] \div (2 ^ (j % LimbBits))) % 2

\* whether a bit of a below bit j is set
BigLowBits(a, j) ==
    LET i == (j \div LimbBits) + 1
    IN  \/ \E n \in 1..Len(a) : n < i /\ a[n] # 0
        \/ i <= Len(a) /\ a[i] % (2 ^ (j % LimbBits)) # 0

\* a shifted right by k bits: the quotient q, the last bit shifted out g, and
\* s, whether a bit below that one was set or the caller's sticky bit is
BigShr(a, k, sticky) ==
    LET limbs == k \div LimbBits
        bits == k % LimbBits
        b == IF limbs >= Len(a) THEN <<>> ELSE SubSeq(a, limbs + 1, Len(a))
    IN  [q |-> BigNorm([i \in 1..Len(b) |->
                          (b[i] \div (2 ^ bits))
                          + (IF i < Len(b)
                             THEN (b[i + 1] % (2 ^ bits)) * (2 ^ (LimbBits - bits))
                             ELSE 0)]),
         g |-> IF k = 0 THEN 0 ELSE BigBit(a, k - 1),
         s |-> sticky \/ (k > 0 /\ BigLowBits(a, k - 1))]

\* round to nearest, ties to even
RoundHalfEven(r) ==
    IF r.g = 1 /\ (r.s \/ BigIsOdd(r.q)) THEN BigAdd(r.q, <<1>>) ELSE r.q

(***************************************************************************)
(* binary64 values >= 0.                                                    *)
(***************************************************************************)
FloatZero == [m |-> <<>>, e |-> 0]

\* the double nearest to (m + d) * 2^e, 0 <= d < 1, sticky iff d > 0
FloatRound(m, e, sticky) ==
    LET len == BigBitLen(m) IN
    IF m = <<>> THEN FloatZero
    ELSE IF len <= MantBits
         THEN [m |-> BigShl(m, MantBits - len), e |-> e - (MantBits - len)]
    ELSE LET mm == RoundHalfEven(BigShr(m, len - MantBits, sticky)) IN
         IF BigBitLen(mm) > MantBits
         THEN [m |-> BigHalf(mm), e |-> e + (len - MantBits) + 1]
         ELSE [m |-> mm, e |-> e + (len - MantBits)]

\* float(n) for an int n >= 0
FloatFromInt(n) == FloatRound(BigFromInt(n), 0, FALSE)

\* x ? y as -1, 0, 1
FloatCmp(x, y) ==
    IF x.m = <<>> \/ y.m = <<>>
    THEN (IF x.m = y.m THEN 0 ELSE IF x.m = <<>> THEN -1 ELSE 1)
    ELSE LET e == IF x.e < y.e THEN x.e ELSE y.e
         IN  BigCmp(BigShl(x.m, x.e - e), BigShl(y.m, y.e - e))

\* x + y
FloatAdd(x, y) ==
    IF x.m = <<>> THEN y
    ELSE IF y.m = <<>> THEN x
    ELSE LET e == IF x.e < y.e THEN x.e ELSE y.e
         IN  FloatRound(BigAdd(BigShl(x.m, x.e - e), BigShl(y.m, y.e - e)), e, FALSE)

\* x - y as a sign and a magnitude
FloatSub(x, y) ==
    LET e == IF x.e < y.e THEN x.e ELSE y.e
        a == IF x.m = <<>> THEN <<>> ELSE BigShl(x.m, x.e - e)
        b == IF y.m = <<>> THEN <<>> ELSE BigShl(y.m, y.e - e)
    IN  IF BigCmp(a, b) >= 0
        THEN [neg |-> FALSE, abs |-> FloatRound(BigSub(a, b), e, FALSE)]
        ELSE [neg |-> TRUE, abs |-> FloatRound(BigSub(b, a), e, FALSE)]

\* n * x for an int 0 <= n < Base (the int is converted exactly)
FloatMulInt(n, x) == FloatRound(BigMulSmall(x.m, n), x.e, FALSE)

\* binary long division: shift the remainder r of the division by d left, one
\* bit at a time (k counts the shifts), until the quotient q holds the
\* mantissa and two more bits
RECURSIVE DivLoop(_, _, _, _)
DivLoop(q, r, d, k) ==
    IF BigBitLen(q) >= MantBits + 2 THEN [q |-> q, r |-> r, k |-> k]
    ELSE LET r2 == BigDouble(r)
             ge == BigCmp(r2, d) >= 0
         IN  DivLoop(BigAdd(BigDouble(q), IF ge THEN <<1>> ELSE <<>>),
                     IF ge THEN BigSub(r2, d) ELSE r2, d, k + 1)

\* x / y for y > 0
FloatDiv(x, y) ==
    IF x.m = <<>> THEN FloatZero
    ELSE LET ge == BigCmp(x.m, y.m) >= 0
             d  == DivLoop(IF ge THEN <<1>> ELSE <<>>,
                           IF ge THEN BigSub(x.m, y.m) ELSE x.m, y.m, 0)
         IN  FloatRound(d.q, x.e - y.e - d.k, d.r # <<>>)

\* int(x): truncation
FloatTrunc(x) ==
    IF x.m = <<>> THEN 0
    ELSE IF x.e >= 0 THEN BigToInt(BigShl(x.m, x.e))
    ELSE IF -x.e >= MantBits THEN 0
    ELSE BigToInt(BigShr(x.m, -x.e, FALSE).q)

\* the hundredths of x cut off, not rounded
Round2_truncating(x) ==
    IF x.m = <<>> THEN 0
    ELSE LET y == BigMulSmall(x.m, 100) IN
         IF x.e >= 0 THEN BigToInt(BigShl(y, x.e))
         ELSE BigToInt(BigShr(y, -x.e, FALSE).q)

\* round(x, 2), in hundredths: the decimal nearest to the exact value of x,
\* ties to even (the float returned is the double nearest to that decimal)
Round2(x) ==
    IF x.m = <<>> THEN 0
    ELSE LET y == BigMulSmall(x.m, 100) IN
         IF x.e >= 0 THEN BigToInt(BigShl(y, x.e))
         ELSE BigToInt(RoundHalfEven(BigShr(y, -x.e, FALSE)))

(***************************************************************************)
(* Values of the program.  A dict is the sequence of its items in insertion *)
(* order: sales_data items are [sku, total_quantity, days_sold],            *)
(* inventory_data items are [sku, available].  A parser's result is         *)
(* [none |-> TRUE] for None and [none |-> FALSE, items |-> dict] otherwise. *)
(* A float rounded to 2 decimals is kept as its number of hundredths.       *)
(***************************************************************************)
NoneValue == [none |-> TRUE, items |-> <<>>]

Dict(items) == [none |-> FALSE, items |-> items]

\* Python's truth value of a parser result: None and the empty dict are false
Truthy(d) == ~d.none /\ d.items # <<>>

HasKey(items, sku) == \E i \in 1..Len(items) : items[i].sku = sku

ItemOf(items, sku) == items[CHOOSE i \in 1..Len(items) : items[i].sku = sku]

\* inventory_data.get(sku, default)
DictGet(items, sku, default) ==
    IF HasKey(items, sku) THEN ItemOf(items, sku).available ELSE default

(***************************************************************************)
(* The numeric domain of the model, and the two divisions of the engine     *)
(* tabulated over it (a division is the one costly operation).              *)
(***************************************************************************)
MaxQty == 7

MaxDays == 5

MaxInv == 3

TrueDivTable ==
    [a \in 0..MaxQty, b \in 1..MaxDays |-> FloatDiv(FloatFromInt(a), FloatFromInt(b))]

\* total_quantity_sold / days_with_sales
TrueDiv(a, b) ==
    IF a \in 0..MaxQty /\ b \in 1..MaxDays THEN TrueDivTable[a, b]
    ELSE FloatDiv(FloatFromInt(a), FloatFromInt(b))

SupplyTable ==
    [q \in 0..MaxInv, a \in 1..MaxQty, b \in 1..MaxDays |->
        FloatDiv(FloatFromInt(q), TrueDiv(a, b))]

\* current_inventory / avg_daily_sales, avg_daily_sales being a / b > 0
DaysOfSupply(q, a, b) ==
    IF q \in 0..MaxInv /\ a \in 1..MaxQty /\ b \in 1..MaxDays THEN SupplyTable[q, a, b]
    ELSE FloatDiv(FloatFromInt(q), TrueDiv(a, b))

(***************************************************************************)
(* generate_restock_recommendations                                         *)
(***************************************************************************)
\* current_inventory <= reorder_point
BelowReorderPoint_or_equal(current_inventory, reorder_point) ==
    FloatCmp(FloatFromInt(current_inventory), reorder_point) <= 0

\* current_inventory < reorder_point, an int against a float
BelowReorderPoint(current_inventory, reorder_point) ==
    FloatCmp(FloatFromInt(current_inventory), reorder_point) < 0

\* int(order_quantity) without the max(0, ...)
RecommendedOrderQuantity_unclamped(order_quantity) ==
    IF order_quantity.neg THEN 0 - FloatTrunc(order_quantity.abs)
    ELSE FloatTrunc(order_quantity.abs)

\* max(0, int(order_quantity))
RecommendedOrderQuantity(order_quantity) ==
    LET n == IF order_quantity.neg THEN 0 - FloatTrunc(order_quantity.abs)
             ELSE FloatTrunc(order_quantity.abs)
    IN  IF n > 0 THEN n ELSE 0

\* a loop body that reports the entries without sales instead of skipping them
Evaluate_unsold(sales_info, inventory_items, lead_time_days, safety_stock_days, desired_days_of_cover) ==
    IF Cardinality(sales_info.days_sold) = 0 \/ sales_info.total_quantity <= 0
    THEN << [sku |-> sales_info.sku,
             avg_daily_sales |-> 0,
             current_inventory |-> DictGet(inventory_items, sales_info.sku, 0),
             days_of_supply |-> 0,
             reorder_point |-> 0,
             recommended_order_quantity |-> 0,
             recommendation |-> 0] >>
    ELSE <<>>

\* the body of the loop for one item of sales_data: the records it appends
Evaluate(sales_info, inventory_items, lead_time_days, safety_stock_days, desired_days_of_cover) ==
    LET total_quantity_sold == sales_info.total_quantity
        days_with_sales == Cardinality(sales_info.days_sold)
    IN
    IF days_with_sales = 0 THEN <<>>
    ELSE
    LET avg_daily_sales == TrueDiv(total_quantity_sold, days_with_sales) IN
    IF avg_daily_sales.m = <<>> THEN <<>>
    ELSE
    LET current_inventory == DictGet(inventory_items, sales_info.sku, 0)
        safety_stock == FloatMulInt(safety_stock_days, avg_daily_sales)
        reorder_point == FloatAdd(FloatMulInt(lead_time_days, avg_daily_sales), safety_stock)
        days_of_supply == DaysOfSupply(current_inventory, total_quantity_sold, days_with_sales)
        inbound_inventory == 0
        desired_inventory_level == FloatMulInt(desired_days_of_cover, avg_daily_sales)
        order_quantity == FloatSub(desired_inventory_level,
                                   FloatFromInt(current_inventory + inbound_inventory))
    IN
    IF BelowReorderPoint(current_inventory, reorder_point)
    THEN << [sku |-> sales_info.sku,
             avg_daily_sales |-> Round2(avg_daily_sales),
             current_inventory |-> current_inventory,
             days_of_supply |-> Round2(days_of_supply),
             reorder_point |-> Round2(reorder_point),
             recommended_order_quantity |-> RecommendedOrderQuantity(order_quantity),
             recommendation |-> FloatTrunc(reorder_point)] >>
    ELSE <<>>

\* a loop over the snapshot, reporting every sku that is out of stock
Collect_from_snapshot(sales_items, inventory_items, lead_time_days, safety_stock_days, desired_days_of_cover) ==
    [i \in 1..Len(SelectSeq(inventory_items, LAMBDA it : it.available = 0)) |->
        [sku |-> SelectSeq(inventory_items, LAMBDA it : it.available = 0)[i].sku,
         avg_daily_sales |-> 0,
         current_inventory |-> 0,
         days_of_supply |-> 0,
         reorder_point |-> 0,
         recommended_order_quantity |-> 0,
         recommendation |-> 0]]

\* the loop over sales_data.items()
RECURSIVE Collect(_, _, _, _, _)
Collect(sales_items, inventory_items, lead_time_days, safety_stock_days, desired_days_of_cover) ==
    IF sales_items = <<>> THEN <<>>
    ELSE Evaluate(Head(sales_items), inventory_items, lead_time_days,
                  safety_stock_days, desired_days_of_cover)
         \o Collect(Tail(sales_items), inventory_items, lead_time_days,
                    safety_stock_days, desired_days_of_cover)

\* the sort key
SortKey(x) == x.days_of_supply

\* x put in front of the elements whose key equals its own
RECURSIVE Insert_before_equals(_, _)
Insert_before_equals(s, x) ==
    IF s = <<>> THEN <<x>>
    ELSE IF x.days_of_supply <= Head(s).days_of_supply THEN <<x>> \o s
    ELSE <<Head(s)>> \o Insert_before_equals(Tail(s), x)

\* x put in front of the list, whatever its key
Insert_front(s, x) == <<x>> \o s

\* x put into the sorted list s behind every element whose key is <= its own
RECURSIVE Insert(_, _)
Insert(s, x) ==
    IF s = <<>> THEN <<x>>
    ELSE IF SortKey(x) < SortKey(Head(s)) THEN <<x>> \o s
    ELSE <<Head(s)>> \o Insert(Tail(s), x)

\* every record sorted in twice
SortRecommendations_doubled(recs) == recs \o recs

\* the list left in the order of the loop
SortRecommendations_unsorted(recs) == recs

\* list.sort(key=...): ascending and stable
RECURSIVE SortRecommendations(_)
SortRecommendations(recs) ==
    IF recs = <<>> THEN <<>>
    ELSE Insert(SortRecommendations(SubSeq(recs, 1, Len(recs) - 1)), recs[Len(recs)])

\* the guard of the first lines: nothing is computed from a None or empty input
NothingToCompute(sales_data, inventory_data) ==
    ~Truthy(sales_data) \/ ~Truthy(inventory_data)

generate_restock_recommendations(sales_data, inventory_data, lead_time_days,
                                 safety_stock_days, desired_days_of_cover) ==
    IF NothingToCompute(sales_data, inventory_data) THEN <<>>
    ELSE SortRecommendations(Collect(sales_data.items, inventory_data.items, lead_time_days,
                                     safety_stock_days, desired_days_of_cover))

(***************************************************************************)
(* The two parsers.  A source file is [exists, rows, error_at]: error_at = 0 *)
(* when it reads to its end, k > 0 when reading raises (an OSError, a        *)
(* UnicodeDecodeError) once k - 1 rows have been delivered.  A cell of a row *)
(* is [k |-> "str", s |-> its text], [k |-> "none"] (None, a row shorter     *)
(* than the header) or [k |-> "absent"] (no such column).  The text of a     *)
(* number is the sequence of the code points of its characters, which int() *)
(* parses; the text of a sku is only tested for emptiness and used as a key, *)
(* and is a string.                                                          *)
(***************************************************************************)
Str(chars) == [k |-> "str", s |-> chars]

NoneCell == [k |-> "none", s |-> <<>>]

AbsentCell == [k |-> "absent", s |-> <<>>]

DigitChars == <<"0", "1", "2", "3", "4", "5", "6", "7", "8", "9">>

\* the code points of the characters the rows below are written with
CodePoint ==
    ("\t" :> 9) @@ (" " :> 32) @@ ("+" :> 43) @@ ("-" :> 45) @@ ("?" :> 63)
    @@ ("_" :> 95) @@ ("x" :> 120) @@ ("U+00A0" :> 160) @@ ("U+0663" :> 1635)
    @@ ("U+FF13" :> 65299)

\* the text of a cell written as its characters, as code points
Text(chars) ==
    [i \in 1..Len(chars) |->
        IF \E d \in 1..Len(DigitChars) : DigitChars[d] = chars[i]
        THEN 47 + (CHOOSE d \in 1..Len(DigitChars) : DigitChars[d] = chars[i])
        ELSE CodePoint[chars[i]]]

\* the code points int() skips on either side of a number (str.isspace
\* without the separators U+001C..U+001F)
Whitespace ==
    {9, 10, 11, 12, 13, 32, 133, 160, 5760} \cup (8192..8202)
    \cup {8232, 8233, 8239, 8287, 12288}

\* the code point of the digit zero of every script with decimal digits
\* (Unicode category Nd); its nine successors are the digits one to nine
DigitZeros ==
    { 48, 1632, 1776, 1984, 2406, 2534, 2662, 2790,
      2918, 3046, 3174, 3302, 3430, 3558, 3664, 3792,
      3872, 4160, 4240, 6112, 6160, 6470, 6608, 6784,
      6800, 6992, 7088, 7232, 7248, 42528, 43216, 43264,
      43472, 43504, 43600, 44016, 65296, 66720, 68912, 69734,
      69872, 69942, 70096, 70384, 70736, 70864, 71248, 71360,
      71472, 71904, 72016, 72784, 73040, 73120, 92768, 92864,
      93008, 120782, 120792, 120802, 120812, 120822, 123200, 123632,
      125264, 130032 }

IsDigit(c) == \E z \in DigitZeros : c \in z..(z + 9)

DigitValue(c) == c - (CHOOSE z \in DigitZeros : c \in z..(z + 9))

\* the text without the whitespace before its first other character
StripLeft(s) ==
    IF \A i \in 1..Len(s) : s[i] \in Whitespace THEN <<>>
    ELSE SubSeq(s, CHOOSE i \in 1..Len(s) :
                       /\ s[i] \notin Whitespace
                       /\ \A j \in 1..(i - 1) : s[j] \in Whitespace,
                Len(s))

\* the text without the whitespace after its last other character
StripRight(s) ==
    IF \A i \in 1..Len(s) : s[i] \in Whitespace THEN <<>>
    ELSE SubSeq(s, 1, CHOOSE i \in 1..Len(s) :
                          /\ s[i] \notin Whitespace
                          /\ \A j \in (i + 1)..Len(s) : s[j] \in Whitespace)

\* the digits from the first that is not a zero
Significant(s) ==
    IF \A i \in 1..Len(s) : DigitValue(s[i]) = 0 THEN <<>>
    ELSE SubSeq(s, CHOOSE i \in 1..Len(s) :
                       /\ DigitValue(s[i]) # 0
                       /\ \A j \in 1..(i - 1) : DigitValue(s[j]) = 0,
                Len(s))

RECURSIVE DigitsValue(_, _)
DigitsValue(s, acc) ==
    IF s = <<>> THEN acc ELSE DigitsValue(Tail(s), 10 * acc + DigitValue(Head(s)))

\* digits, with single underscores between two of them
IsNumeral(t) ==
    /\ t # <<>>
    /\ \A i \in 1..Len(t) :
          \/ IsDigit(t[i])
          \/ /\ t[i] = 95
             /\ 1 < i /\ i < Len(t)
             /\ IsDigit(t[i - 1]) /\ IsDigit(t[i + 1])

\* the most digits int() converts (sys.get_int_max_str_digits(), which the
\* program leaves at its default); the sign, the underscores and the
\* whitespace around the number do not count, leading zeros do
MaxStrDigits == 4300

\* int(x) for the value x of row.get(column, 0): [err |-> "" or the exception, v |-> the int]
IntOf(cell) ==
    IF cell.k = "absent" THEN [err |-> "", v |-> 0]
    ELSE IF cell.k = "none" THEN [err |-> "TypeError", v |-> 0]
    ELSE LET t == StripRight(StripLeft(cell.s))
             signed == t # <<>> /\ Head(t) \in {43, 45}
             numeral == IF signed THEN Tail(t) ELSE t
             digits == SelectSeq(numeral, IsDigit)
         IN  IF ~IsNumeral(numeral) \/ Len(digits) > MaxStrDigits
             THEN [err |-> "ValueError", v |-> 0]
             ELSE [err |-> "",
                   v |-> IF signed /\ Head(t) = 45
                         THEN 0 - DigitsValue(Significant(digits), 0)
                         ELSE DigitsValue(Significant(digits), 0)]

\* the truth value of row.get('sku')
SkuTruthy(cell) == cell.k = "str" /\ cell.s # ""

\* A purchase date is [k |-> "date", day, time, offset] for a text such as
\* 2025-07-10T20:58:30+00:00 (day counts the calendar days), or a cell as above
\* whose text is no ISO date.
IsoDate(day, time, offset) == [k |-> "date", day |-> day, time |-> time, offset |-> offset]

\* the truth value of row.get('purchase-date')
DateTruthy(cell) == cell.k = "date" \/ (cell.k = "str" /\ cell.s # <<>>)

\* datetime.fromisoformat(text.replace('+00:00', '')).date()
SaleDate(cell) ==
    IF cell.k = "date" THEN [err |-> "", v |-> cell.day] ELSE [err |-> "ValueError", v |-> 0]

\* total_quantity = quantity in place of += quantity
AddSale_overwrite(items, sku, quantity, day) ==
    IF HasKey(items, sku)
    THEN [i \in 1..Len(items) |->
            IF items[i].sku = sku
            THEN [sku |-> sku, total_quantity |-> quantity,
                  days_sold |-> items[i].days_sold \cup {day}]
            ELSE items[i]]
    ELSE Append(items, [sku |-> sku, total_quantity |-> quantity, days_sold |-> {day}])

\* sales_velocity[sku]["total_quantity"] += quantity; ...["days_sold"].add(date)
AddSale(items, sku, quantity, day) ==
    IF HasKey(items, sku)
    THEN [i \in 1..Len(items) |->
            IF items[i].sku = sku
            THEN [sku |-> sku,
                  total_quantity |-> items[i].total_quantity + quantity,
                  days_sold |-> items[i].days_sold \cup {day}]
            ELSE items[i]]
    ELSE Append(items, [sku |-> sku, total_quantity |-> quantity, days_sold |-> {day}])

\* the loop body with the quantity added before the date is parsed: a date
\* that does not parse leaves the quantity, and a new key without a day
SalesRow_add_before_date(items, row) ==
    IF row.status # "Shipped" THEN items
    ELSE LET quantity == IntOf(row.quantity) IN
         IF quantity.err # "" THEN items
         ELSE IF SkuTruthy(row.sku) /\ quantity.v > 0 /\ DateTruthy(row.purchase_date)
              THEN LET sale_date == SaleDate(row.purchase_date) IN
                   IF sale_date.err # ""
                   THEN IF HasKey(items, row.sku.s)
                        THEN [i \in 1..Len(items) |->
                                IF items[i].sku = row.sku.s
                                THEN [items[i] EXCEPT !.total_quantity = @ + quantity.v]
                                ELSE items[i]]
                        ELSE Append(items, [sku |-> row.sku.s, total_quantity |-> quantity.v,
                                            days_sold |-> {}])
                   ELSE AddSale(items, row.sku.s, quantity.v, sale_date.v)
              ELSE items

\* the loop body without the test quantity > 0
SalesRow_any_quantity(items, row) ==
    IF row.status # "Shipped" THEN items
    ELSE LET quantity == IntOf(row.quantity) IN
         IF quantity.err # "" THEN items
         ELSE IF SkuTruthy(row.sku) /\ DateTruthy(row.purchase_date)
              THEN LET sale_date == SaleDate(row.purchase_date) IN
                   IF sale_date.err # "" THEN items
                   ELSE AddSale(items, row.sku.s, quantity.v, sale_date.v)
              ELSE items

\* the body of the loop of parse_sales_data for one row
SalesRow(items, row) ==
    IF row.status # "Shipped" THEN items
    ELSE LET quantity == IntOf(row.quantity) IN
         IF quantity.err # "" THEN items
         ELSE IF SkuTruthy(row.sku) /\ quantity.v > 0 /\ DateTruthy(row.purchase_date)
              THEN LET sale_date == SaleDate(row.purchase_date) IN
                   IF sale_date.err # "" THEN items
                   ELSE AddSale(items, row.sku.s, quantity.v, sale_date.v)
              ELSE items

RECURSIVE FoldSales(_, _)
FoldSales(rows, items) ==
    IF rows = <<>> THEN items ELSE FoldSales(Tail(rows), SalesRow(items, Head(rows)))

\* parse_sales_data with the handlers returning the mapping folded so far
\* instead of None
parse_sales_data_partial(file) ==
    IF ~file.exists
    THEN [value |-> Dict(<<>>), printed |-> "Error: Sales file not found"]
    ELSE IF file.error_at > 0
    THEN [value |-> Dict(FoldSales(SubSeq(file.rows, 1, file.error_at - 1), <<>>)),
          printed |-> "Error processing sales file"]
    ELSE [value |-> Dict(FoldSales(file.rows, <<>>)), printed |-> ""]

\* what parse_sales_data returns and the line it prints ("" for none)
parse_sales_data(file) ==
    IF ~file.exists
    THEN [value |-> NoneValue, printed |-> "Error: Sales file not found"]
    ELSE IF file.error_at > 0
    THEN [value |-> NoneValue, printed |-> "Error processing sales file"]
    ELSE [value |-> Dict(FoldSales(file.rows, <<>>)), printed |-> ""]

\* inventory_levels[sku] = available_quantity
SetLevel(items, sku, available) ==
    IF HasKey(items, sku)
    THEN [i \in 1..Len(items) |->
            IF items[i].sku = sku THEN [sku |-> sku, available |-> available] ELSE items[i]]
    ELSE Append(items, [sku |-> sku, available |-> available])

\* the body of the loop of parse_inventory_data for one row: the dict after
\* it, or the exception that leaves the loop (only ValueError is caught there)
InventoryRow(items, row) ==
    LET available_quantity == IntOf(row.available) IN
    IF available_quantity.err = "ValueError" THEN [err |-> "", items |-> items]
    ELSE IF available_quantity.err # "" THEN [err |-> available_quantity.err, items |-> items]
    ELSE IF SkuTruthy(row.sku) /\ available_quantity.v >= 0
         THEN [err |-> "", items |-> SetLevel(items, row.sku.s, available_quantity.v)]
         ELSE [err |-> "", items |-> items]

RECURSIVE FoldInventory(_, _)
FoldInventory(rows, items) ==
    IF rows = <<>> THEN [err |-> "", items |-> items]
    ELSE LET r == InventoryRow(items, Head(rows)) IN
         IF r.err # "" THEN r ELSE FoldInventory(Tail(rows), r.items)

\* parse_inventory_data with the handler of a failed read returning the
\* snapshot folded so far instead of None
parse_inventory_data_partial(file) ==
    IF ~file.exists
    THEN [value |-> NoneValue, printed |-> "Error: Inventory file not found"]
    ELSE LET read == IF file.error_at > 0 THEN SubSeq(file.rows, 1, file.error_at - 1)
                     ELSE file.rows
             folded == FoldInventory(read, <<>>)
         IN  IF folded.err # ""
             THEN [value |-> NoneValue, printed |-> "Error processing inventory file"]
             ELSE [value |-> Dict(folded.items),
                   printed |-> IF file.error_at > 0 THEN "Error processing inventory file"
                               ELSE ""]

\* what parse_inventory_data returns and the line it prints ("" for none)
parse_inventory_data(file) ==
    IF ~file.exists
    THEN [value |-> NoneValue, printed |-> "Error: Inventory file not found"]
    ELSE LET read == IF file.error_at > 0 THEN SubSeq(file.rows, 1, file.error_at - 1)
                     ELSE file.rows
             folded == FoldInventory(read, <<>>)
         IN  IF folded.err # "" \/ file.error_at > 0
             THEN [value |-> NoneValue, printed |-> "Error processing inventory file"]
             ELSE [value |-> Dict(folded.items), printed |-> ""]

(***************************************************************************)
(* save_recommendations: the output file and the line printed.  The output  *)
(* file is [exists, rows]: rows are the records it holds in full.  writable  *)
(* tells whether open(output_file, 'w') succeeds; error_at = 0 when the      *)
(* writing reaches its end, k > 0 when it raises (the disk is full, the file *)
(* too large, the device fails) once k - 1 records are in the file, which    *)
(* open has created or emptied by then.                                      *)
(***************************************************************************)
NothingToReportLine == "No restock recommendations generated."

FailureLine == "Could not generate recommendations due to missing data."

\* save_recommendations opening the file before it looks at the list: an
\* empty list leaves a file without records
save_recommendations_truncating(recommendations, file, writable, error_at) ==
    IF ~writable
    THEN [file |-> file, printed |-> "Error saving recommendations"]
    ELSE IF error_at \in 1..(Len(recommendations) + 1)
    THEN [file |-> [exists |-> TRUE, rows |-> SubSeq(recommendations, 1, error_at - 1)],
          printed |-> "Error saving recommendations"]
    ELSE [file |-> [exists |-> TRUE, rows |-> recommendations],
          printed |-> IF recommendations = <<>> THEN NothingToReportLine
                      ELSE "Restock recommendations saved"]

\* save_recommendations without its guard for the empty list
save_recommendations_unguarded(recommendations, file, writable, error_at) ==
    IF ~writable
    THEN [file |-> file, printed |-> "Error saving recommendations"]
    ELSE IF error_at \in 1..(Len(recommendations) + 1)
    THEN [file |-> [exists |-> TRUE, rows |-> SubSeq(recommendations, 1, error_at - 1)],
          printed |-> "Error saving recommendations"]
    ELSE [file |-> [exists |-> TRUE, rows |-> recommendations],
          printed |-> "Restock recommendations saved"]

save_recommendations(recommendations, file, writable, error_at) ==
    IF recommendations = <<>>
    THEN [file |-> file, printed |-> NothingToReportLine]
    ELSE IF ~writable
    THEN [file |-> file, printed |-> "Error saving recommendations"]
    ELSE IF error_at \in 1..(Len(recommendations) + 1)
    THEN [file |-> [exists |-> TRUE, rows |-> SubSeq(recommendations, 1, error_at - 1)],
          printed |-> "Error saving recommendations"]
    ELSE [file |-> [exists |-> TRUE, rows |-> recommendations],
          printed |-> "Restock recommendations saved"]

(***************************************************************************)
(* The program's state: the two source files and the output file, the       *)
(* policy parameters, the parsers' results, the engine's result, and what    *)
(* the run printed.  engine_calls counts the calls of                        *)
(* generate_restock_recommendations.                                         *)
(***************************************************************************)
VARIABLES pc, sales_file, inventory_file, output_file, output_writable,
          lead_time_days, safety_stock_days, desired_days_of_cover,
          sales_data, inventory_data, restock_recommendations, engine_calls, stdout,
          recommendations, position

vars == <<pc, sales_file, inventory_file, output_file, output_writable,
          lead_time_days, safety_stock_days, desired_days_of_cover,
          sales_data, inventory_data, restock_recommendations, engine_calls, stdout,
          recommendations, position>>

\* the frame of a call of generate_restock_recommendations that is followed
\* line by line: its list `recommendations` and the number of items of
\* sales_data.items() its loop has taken
frame == <<recommendations, position>>

NoFrame == recommendations = <<>> /\ position = 0

inputs == <<sales_file, inventory_file, output_writable,
            lead_time_days, safety_stock_days, desired_days_of_cover>>

\* the defaults of generate_restock_recommendations and of the command line
FnLeadTime == 14

FnSafetyStock == 7

FnDesiredCover == 30

CliLeadTime == 21

CliSafetyStock == 10

CliDesiredCover == 45

NoFile == [exists |-> FALSE, rows |-> <<>>, error_at |-> 0]

NoOutput == [exists |-> FALSE, rows |-> <<>>]

\* the recommendations an earlier run left in the output file
EarlierOutput ==
    [exists |-> TRUE,
     rows |-> << [sku |-> "A", avg_daily_sales |-> 100, current_inventory |-> 0,
                  days_of_supply |-> 0, reorder_point |-> 3100,
                  recommended_order_quantity |-> 45, recommendation |-> 31] >>]

(***************************************************************************)
(* The command-line run (the __main__ block).                                *)
(***************************************************************************)
MaxSalesRows == 2

MaxInventoryRows == 2

ShippedRow(sku, quantity, day) ==
    [status |-> "Shipped", sku |-> Str(sku), quantity |-> Str(Text(quantity)),
     purchase_date |-> IsoDate(day, "20:58:30", "+00:00")]

SalesRows ==
    { ShippedRow("A", <<"2">>, 1), ShippedRow("B", <<"1">>, 1),
      [ShippedRow("A", <<"2">>, 1) EXCEPT !.status = "Pending"],
      [ShippedRow("A", <<"2">>, 1) EXCEPT !.purchase_date = Str(Text(<<"?">>))] }

InventoryRows ==
    { [sku |-> Str("A"), available |-> Str(Text(<<"0">>))],
      [sku |-> Str("A"), available |-> Str(Text(<<"9", "9">>))],
      [sku |-> Str("B"), available |-> Str(Text(<<"3">>))],
      [sku |-> Str("A"), available |-> Str(Text(<<"-", "1">>))] }

SeqsUpTo(S, n) == UNION {[1..k -> S] : k \in 0..n}

MaxRowsBeforeError == 1

\* no file, a file that reads to its end, a file whose reading fails
Files(S, n) ==
    {NoFile}
    \cup {[exists |-> TRUE, rows |-> rows, error_at |-> 0] : rows \in SeqsUpTo(S, n)}
    \cup {[exists |-> TRUE, rows |-> rows, error_at |-> Len(rows) + 1] :
             rows \in SeqsUpTo(S, MaxRowsBeforeError)}

Init ==
    /\ pc = "main"
    /\ sales_file \in Files(SalesRows, MaxSalesRows)
    /\ inventory_file \in Files(InventoryRows, MaxInventoryRows)
    /\ output_file \in {NoOutput, EarlierOutput}
    /\ output_writable \in BOOLEAN
    /\ lead_time_days \in {0, CliLeadTime}
    /\ safety_stock_days = CliSafetyStock
    /\ desired_days_of_cover = CliDesiredCover
    /\ sales_data = NoneValue
    /\ inventory_data = NoneValue
    /\ restock_recommendations = <<>>
    /\ engine_calls = 0
    /\ stdout = <<>>
    /\ NoFrame

\* sales_data = parse_sales_data(sales_file_path)
ParseSales ==
    /\ pc = "main"
    /\ LET r == parse_sales_data(sales_file) IN
       /\ sales_data' = r.value
       /\ stdout' = stdout \o <<"Analyzing sales data">>
                    \o (IF r.printed = "" THEN <<>> ELSE <<r.printed>>)
    /\ pc' = "sales_parsed"
    /\ UNCHANGED <<inputs, frame, output_file, inventory_data,
                   restock_recommendations, engine_calls>>

\* inventory_data = parse_inventory_data(inventory_file_path)
ParseInventory ==
    /\ pc = "sales_parsed"
    /\ LET r == parse_inventory_data(inventory_file) IN
       /\ inventory_data' = r.value
       /\ stdout' = stdout \o <<"Analyzing inventory data">>
                    \o (IF r.printed = "" THEN <<>> ELSE <<r.printed>>)
    /\ pc' = "inventory_parsed"
    /\ UNCHANGED <<inputs, frame, output_file, sales_data,
                   restock_recommendations, engine_calls>>

\* if sales_data and inventory_data:
HaveData == Truthy(sales_data) /\ Truthy(inventory_data)

\* the lines printed before the engine runs
SettingsLines(lead_time, safety_stock, desired_cover) ==
    << "Generating restock recommendations with the following settings:",
       "- Lead Time: " \o ToString(lead_time) \o " days",
       "- Safety Stock: " \o ToString(safety_stock) \o " days of cover",
       "- Desired Days of Cover: " \o ToString(desired_cover) \o " days" >>

\* the branch that generates and saves
GenerateAndSave ==
    /\ pc = "inventory_parsed"
    /\ HaveData
    /\ LET recs == generate_restock_recommendations(
                       sales_data, inventory_data, lead_time_days,
                       safety_stock_days, desired_days_of_cover)
       IN  \E error_at \in 0..(Len(recs) + 1) :
              LET saved == save_recommendations(recs, output_file, output_writable, error_at)
              IN  /\ restock_recommendations' = recs
                  /\ output_file' = saved.file
                  /\ stdout' = stdout
                               \o SettingsLines(lead_time_days, safety_stock_days,
                                                desired_days_of_cover)
                               \o <<saved.printed>>
    /\ engine_calls' = engine_calls + 1
    /\ pc' = "done"
    /\ UNCHANGED <<inputs, frame, sales_data, inventory_data>>

\* the else branch
ReportMissingData ==
    /\ pc = "inventory_parsed"
    /\ ~HaveData
    /\ stdout' = stdout \o <<FailureLine>>
    /\ pc' = "done"
    /\ UNCHANGED <<inputs, frame, output_file, sales_data, inventory_data,
                   restock_recommendations, engine_calls>>

Next == ParseSales \/ ParseInventory \/ GenerateAndSave \/ ReportMissingData

Spec == Init /\ [][Next]_vars
(***************************************************************************)
(* Calls of generate_restock_recommendations on a sales mapping and an      *)
(* inventory snapshot given directly: pc = "call" before, "returned" after. *)
(***************************************************************************)
\* a call whose lookup of a sku that the snapshot does not hold adds the sku
\* to it, with 0 (a default-creating mapping read by inventory_data[sku])
CallGenerate_default_creating ==
    /\ pc = "call"
    /\ restock_recommendations' =
           generate_restock_recommendations(sales_data, inventory_data, lead_time_days,
                                            safety_stock_days, desired_days_of_cover)
    /\ inventory_data' =
           IF ~Truthy(sales_data) \/ ~Truthy(inventory_data) THEN inventory_data
           ELSE Dict(inventory_data.items
                     \o [i \in 1..Len(SelectSeq(sales_data.items,
                                 LAMBDA v : ~HasKey(inventory_data.items, v.sku))) |->
                           [sku |-> SelectSeq(sales_data.items,
                                       LAMBDA v : ~HasKey(inventory_data.items, v.sku))[i].sku,
                            available |-> 0]])
    /\ engine_calls' = engine_calls + 1
    /\ pc' = "returned"
    /\ UNCHANGED <<inputs, frame, output_file, sales_data, stdout>>

CallGenerate ==
    /\ pc = "call"
    /\ restock_recommendations' =
           generate_restock_recommendations(sales_data, inventory_data, lead_time_days,
                                            safety_stock_days, desired_days_of_cover)
    /\ engine_calls' = engine_calls + 1
    /\ pc' = "returned"
    /\ UNCHANGED <<inputs, frame, output_file, sales_data, inventory_data, stdout>>

NextCall == CallGenerate

NoFiles ==
    /\ sales_file = NoFile
    /\ inventory_file = NoFile
    /\ output_file = NoOutput
    /\ output_writable = TRUE
    /\ restock_recommendations = <<>>
    /\ engine_calls = 0
    /\ stdout = <<>>
    /\ NoFrame

Velocity(sku, total_quantity, days) ==
    [sku |-> sku, total_quantity |-> total_quantity, days_sold |-> 1..days]

Level(sku, available) == [sku |-> sku, available |-> available]

\* the snapshots over one sku: no entry, or one of 0..n
Levels(sku, n) == {<<>>} \cup {<<Level(sku, q)>> : q \in 0..n}

(***************************************************************************)
(* One sku, A, over the whole numeric domain; the snapshot holds A or not,  *)
(* and a sku that was never sold, C, or not.                                *)
(***************************************************************************)
MaxLeadTime == 1

MaxSafetyStock == 1

MaxDesiredCover == 1

\* 20 units sold on 2 days that are not consecutive, 50 in stock, the
\* parameters of the command line
WorkedExample ==
    /\ sales_data = Dict(<<[sku |-> "A", total_quantity |-> 20, days_sold |-> {1, 3}]>>)
    /\ inventory_data = Dict(<<Level("A", 50)>>)
    /\ lead_time_days = CliLeadTime
    /\ safety_stock_days = CliSafetyStock
    /\ desired_days_of_cover = CliDesiredCover

InitDecision ==
    /\ pc = "call"
    /\ NoFiles
    /\ \/ /\ \E tq \in 0..MaxQty, d \in 0..MaxDays :
                 sales_data = Dict(<<Velocity("A", tq, d)>>)
          /\ \E a \in Levels("A", MaxInv), c \in Levels("C", 0) :
                 inventory_data = Dict(a \o c)
          /\ lead_time_days \in 0..MaxLeadTime \cup {FnLeadTime, CliLeadTime}
          /\ safety_stock_days \in 0..MaxSafetyStock \cup {FnSafetyStock, CliSafetyStock}
          /\ desired_days_of_cover \in 0..MaxDesiredCover \cup {FnDesiredCover, CliDesiredCover}
       \/ WorkedExample

SpecDecision == InitDecision /\ [][NextCall]_vars

(***************************************************************************)
(* Up to two skus sold, A and B, in either order of first sale, over a      *)
(* small numeric domain; C is in the snapshot only.                         *)
(***************************************************************************)
PairMaxQty == 2

PairMaxDays == 2

PairMaxInv == 2

PolicyDays == {0, 1}

Velocities(sku) ==
    {Velocity(sku, tq, d) : tq \in 0..PairMaxQty, d \in 0..PairMaxDays}

InitCatalogue ==
    /\ pc = "call"
    /\ NoFiles
    /\ \E a \in Velocities("A"), b \in Velocities("B") :
           sales_data \in {Dict(<<>>), Dict(<<a>>), Dict(<<b>>), Dict(<<a, b>>), Dict(<<b, a>>)}
    /\ \E a \in Levels("A", PairMaxInv), b \in Levels("B", PairMaxInv), c \in Levels("C", 0) :
           inventory_data = Dict(a \o b \o c)
    /\ lead_time_days \in PolicyDays
    /\ safety_stock_days \in PolicyDays
    /\ desired_days_of_cover = 1

SpecCatalogue == InitCatalogue /\ [][NextCall]_vars

(***************************************************************************)
(* Two fast-selling skus, A and B, each sold on one day in a quantity near  *)
(* MaxBulkQty, with a few units in stock: days of supply that differ by     *)
(* less than a hundredth.                                                   *)
(***************************************************************************)
MaxBulkQty == 15

MaxBulkInv == 2

BulkVelocities(sku) == {Velocity(sku, tq, 1) : tq \in (MaxBulkQty - 3)..MaxBulkQty}

InitBulk ==
    /\ pc = "call"
    /\ NoFiles
    /\ \E a \in BulkVelocities("A"), b \in BulkVelocities("B") :
           sales_data \in {Dict(<<a, b>>), Dict(<<b, a>>)}
    /\ \E qa \in 1..MaxBulkInv, qb \in 1..MaxBulkInv :
           inventory_data = Dict(<<Level("A", qa), Level("B", qb)>>)
    /\ lead_time_days = 0
    /\ safety_stock_days = 1
    /\ desired_days_of_cover = 1

SpecBulk == InitBulk /\ [][NextCall]_vars

(***************************************************************************)
(* The catalogue with the engine called again on the same arguments.        *)
(***************************************************************************)
MaxCalls == 3

\* a call whose list `recommendations` is the one of the call before (a
\* list made once, as a default argument or a module-level list is)
BeginCall_shared_list ==
    /\ pc \in {"call", "returned"}
    /\ engine_calls < MaxCalls
    /\ recommendations' = recommendations
    /\ position' = 0
    /\ pc' = "entered"
    /\ UNCHANGED <<inputs, output_file, sales_data, inventory_data,
                   restock_recommendations, engine_calls, stdout>>

\* the call, first or later: recommendations = []
BeginCall ==
    /\ pc \in {"call", "returned"}
    /\ engine_calls < MaxCalls
    /\ recommendations' = <<>>
    /\ position' = 0
    /\ pc' = "entered"
    /\ UNCHANGED <<inputs, output_file, sales_data, inventory_data,
                   restock_recommendations, engine_calls, stdout>>

\* if not sales_data or not inventory_data: return recommendations
ReturnEarly ==
    /\ pc = "entered"
    /\ NothingToCompute(sales_data, inventory_data)
    /\ restock_recommendations' = recommendations
    /\ engine_calls' = engine_calls + 1
    /\ pc' = "returned"
    /\ UNCHANGED <<inputs, frame, output_file, sales_data, inventory_data, stdout>>

\* one round of the loop over sales_data.items()
EvaluateNext ==
    /\ pc = "entered"
    /\ ~NothingToCompute(sales_data, inventory_data)
    /\ position < Len(sales_data.items)
    /\ recommendations' =
           recommendations
           \o Evaluate(sales_data.items[position + 1], inventory_data.items,
                       lead_time_days, safety_stock_days, desired_days_of_cover)
    /\ position' = position + 1
    /\ UNCHANGED <<pc, inputs, output_file, sales_data, inventory_data,
                   restock_recommendations, engine_calls, stdout>>

\* recommendations.sort(...); return recommendations
SortAndReturn ==
    /\ pc = "entered"
    /\ ~NothingToCompute(sales_data, inventory_data)
    /\ position = Len(sales_data.items)
    /\ recommendations' = SortRecommendations(recommendations)
    /\ restock_recommendations' = recommendations'
    /\ engine_calls' = engine_calls + 1
    /\ pc' = "returned"
    /\ UNCHANGED <<position, inputs, output_file, sales_data, inventory_data, stdout>>

NextRepeated == BeginCall \/ ReturnEarly \/ EvaluateNext \/ SortAndReturn

SpecRepeated == InitCatalogue /\ [][NextRepeated]_vars

(***************************************************************************)
(* Calls of the two parsers on a source given directly: pc is "parse_sales" *)
(* or "parse_inventory" before the call, "sales_returned" or                *)
(* "inventory_returned" after it.                                           *)
(***************************************************************************)
CallParseSales ==
    /\ pc = "parse_sales"
    /\ LET r == parse_sales_data(sales_file) IN
       /\ sales_data' = r.value
       /\ stdout' = stdout \o (IF r.printed = "" THEN <<>> ELSE <<r.printed>>)
    /\ pc' = "sales_returned"
    /\ UNCHANGED <<inputs, frame, output_file, inventory_data,
                   restock_recommendations, engine_calls>>

CallParseInventory ==
    /\ pc = "parse_inventory"
    /\ LET r == parse_inventory_data(inventory_file) IN
       /\ inventory_data' = r.value
       /\ stdout' = stdout \o (IF r.printed = "" THEN <<>> ELSE <<r.printed>>)
    /\ pc' = "inventory_returned"
    /\ UNCHANGED <<inputs, frame, output_file, sales_data,
                   restock_recommendations, engine_calls>>

NextParse == CallParseSales \/ CallParseInventory

MaxParsedRows == 3

SaleAt(sku, quantity, day, time) ==
    [status |-> "Shipped", sku |-> Str(sku), quantity |-> Str(Text(quantity)),
     purchase_date |-> IsoDate(day, time, "+00:00")]

\* sales rows: sold twice on a day, on another day, another sku; and rows
\* that are not shipped, of quantity 0, of no number, of no quantity cell,
\* of no date, of no sku
ParsedSalesRows ==
    { SaleAt("A", <<"2">>, 1, "08:00:00"), SaleAt("A", <<"1">>, 1, "20:58:30"),
      SaleAt("A", <<"\t", "1", "U+00A0">>, 2, "20:58:30"),
      SaleAt("B", <<"U+FF13">>, 1, "08:00:00"),
      [SaleAt("A", <<"2">>, 1, "08:00:00") EXCEPT !.status = "Pending"],
      SaleAt("A", <<"0">>, 2, "08:00:00"),
      SaleAt("B", <<"x">>, 1, "08:00:00"),
      [SaleAt("A", <<"2">>, 1, "08:00:00") EXCEPT !.quantity = NoneCell,
                                                  !.purchase_date = NoneCell],
      [SaleAt("B", <<"2">>, 2, "08:00:00") EXCEPT !.purchase_date = Str(Text(<<"?">>))],
      [SaleAt("A", <<"2">>, 2, "08:00:00") EXCEPT !.purchase_date = Str(Text(<<>>))],
      SaleAt("", <<"2">>, 1, "08:00:00") }

\* inventory rows: valid ones; and rows of a negative quantity, of no number,
\* of more zeros than int() converts, of an empty cell, of no cell (a row
\* shorter than the header), of no sku
ParsedInventoryRows ==
    { [sku |-> Str("A"), available |-> Str(Text(<<"0">>))],
      [sku |-> Str("A"), available |-> Str(Text(<<"0", "_", "5">>))],
      [sku |-> Str("B"), available |-> Str(Text(<<" ", "U+0663", "\t">>))],
      [sku |-> Str("A"), available |-> Str(Text(<<"-", "1">>))],
      [sku |-> Str("A"), available |-> Str(Text(<<"x">>))],
      [sku |-> Str("A"), available |-> Str([i \in 1..(MaxStrDigits + 1) |-> 48])],
      [sku |-> Str("B"), available |-> Str(Text(<<>>))],
      [sku |-> Str("B"), available |-> NoneCell],
      [sku |-> Str(""), available |-> Str(Text(<<"4">>))] }

InitParse ==
    /\ pc \in {"parse_sales", "parse_inventory"}
    /\ sales_file \in IF pc = "parse_sales" THEN Files(ParsedSalesRows, MaxParsedRows)
                       ELSE {NoFile}
    /\ inventory_file \in IF pc = "parse_inventory"
                           THEN Files(ParsedInventoryRows, MaxParsedRows)
                           ELSE {NoFile}
    /\ output_file = NoOutput
    /\ output_writable = TRUE
    /\ lead_time_days = CliLeadTime
    /\ safety_stock_days = CliSafetyStock
    /\ desired_days_of_cover = CliDesiredCover
    /\ sales_data = NoneValue
    /\ inventory_data = NoneValue
    /\ restock_recommendations = <<>>
    /\ engine_calls = 0
    /\ stdout = <<>>
    /\ NoFrame

SpecParse == InitParse /\ [][NextParse]_vars
(***************************************************************************)
(* The claims.  They are stated in exact arithmetic on the integers of the  *)
(* inputs: an average a / b is the pair of its numerator and denominator.   *)
(***************************************************************************)
Last(s) == s[Len(s)]

Printed(line) == \E i \in 1..Len(stdout) : stdout[i] = line

Emitted(sku, recs) == \E i \in 1..Len(recs) : recs[i].sku = sku

RecordsOf(sku, recs) == {recs[i] : i \in {j \in 1..Len(recs) : recs[j].sku = sku}}

SellingDays(v) == Cardinality(v.days_sold)

\* avg_daily_sales > 0
Sells(v) == SellingDays(v) > 0 /\ v.total_quantity > 0

\* current_inventory < (lead_time_days + safety_stock_days) * avg_daily_sales
BelowExactReorderPoint(v, q) ==
    q * SellingDays(v) < (lead_time_days + safety_stock_days) * v.total_quantity

\* C1: every sku of the sales mapping with avg_daily_sales > 0 is emitted if
\* and only if its current inventory (0 when the snapshot has no entry for it,
\* also when the snapshot is empty) is below
\* (lead_time_days + safety_stock_days) * avg_daily_sales.
C1_EmittedIffBelowReorderPoint ==
    pc = "returned" =>
        \A i \in 1..Len(sales_data.items) :
            LET v == sales_data.items[i] IN
            Sells(v) =>
                (Emitted(v.sku, restock_recommendations)
                 <=> BelowExactReorderPoint(v, DictGet(inventory_data.items, v.sku, 0)))

Unavailable(file) == ~file.exists \/ file.error_at > 0

\* C2: when the sales source or the inventory source cannot be opened or
\* read, the run ends with the engine never called, no recommendation list,
\* the failure line as its last line and not the nothing-to-report line, and
\* no step of the run writes the output file.
C2_UnavailableSourceFails ==
    /\ [](pc = "done" /\ (Unavailable(sales_file) \/ Unavailable(inventory_file))
            => /\ engine_calls = 0
               /\ restock_recommendations = <<>>
               /\ Last(stdout) = FailureLine
               /\ ~Printed(NothingToReportLine)
               /\ ~Printed("Restock recommendations saved"))
    /\ [][Unavailable(sales_file) \/ Unavailable(inventory_file)
            => output_file' = output_file]_vars

\* a run that ended on a sales file whose reading failed after a row was
\* folded, the inventory being fine and an earlier output in place
C2_Witness ==
    /\ pc = "done"
    /\ sales_file.exists /\ sales_file.error_at > 1
    /\ Truthy(inventory_data)
    /\ output_file = EarlierOutput

Readable(file) == file.exists /\ file.error_at = 0

\* C3: when both sources are readable and one of them yields no valid
\* record, the run goes through the engine to an empty list and ends with
\* the nothing-to-report line, not with the failure line.
C3_EmptyInputIsNotFailure ==
    pc = "done" /\ Readable(sales_file) /\ Readable(inventory_file)
        /\ (sales_data = Dict(<<>>) \/ inventory_data = Dict(<<>>))
    => /\ engine_calls = 1
       /\ restock_recommendations = <<>>
       /\ Last(stdout) = NothingToReportLine
       /\ ~Printed(FailureLine)

\* no sku of the sales mapping is below its reorder point (or it sells nothing)
NoSkuTriggers ==
    \A i \in 1..Len(sales_data.items) :
        LET v == sales_data.items[i] IN
        ~Sells(v) \/ ~BelowExactReorderPoint(v, DictGet(inventory_data.items, v.sku, 0))

\* C4: when both sources yield a valid record and no sku triggers, the run
\* ends without an error line, with the engine called once, and with the
\* nothing-to-report line, which is not the failure line.
C4_NothingToReport ==
    pc = "done" /\ Truthy(sales_data) /\ Truthy(inventory_data) /\ NoSkuTriggers
    => /\ engine_calls = 1
       /\ restock_recommendations = <<>>
       /\ Last(stdout) = NothingToReportLine
       /\ NothingToReportLine # FailureLine
       /\ ~Printed(FailureLine)
       /\ stdout = <<"Analyzing sales data", "Analyzing inventory data">>
                   \o SettingsLines(lead_time_days, safety_stock_days,
                                    desired_days_of_cover)
                   \o <<NothingToReportLine>>

\* a run on a sold sku whose stock is at or above its reorder point
C4_Witness ==
    /\ pc = "done"
    /\ Truthy(sales_data) /\ Truthy(inventory_data) /\ NoSkuTriggers
    /\ lead_time_days = CliLeadTime
Generate(sales, inventory) ==
    generate_restock_recommendations(sales, inventory, lead_time_days,
                                     safety_stock_days, desired_days_of_cover)

OtherSku(sku) == IF sku = "A" THEN "B" ELSE "A"

\* the sales mappings of the catalogue that hold the same entry for sku
SalesWithSameEntry(sku) ==
    LET x == ItemOf(sales_data.items, sku) IN
    {Dict(<<x>>)}
    \cup {Dict(<<x, y>>) : y \in Velocities(OtherSku(sku))}
    \cup {Dict(<<y, x>>) : y \in Velocities(OtherSku(sku))}

\* the snapshots of the catalogue that hold the same entry, or none, for sku
SnapshotsWithSameEntry(sku) ==
    LET own == SelectSeq(inventory_data.items, LAMBDA it : it.sku = sku) IN
    {Dict(own \o b \o c) : b \in Levels(OtherSku(sku), PairMaxInv), c \in Levels("C", 0)}

\* C5: whether a sku is recommended, and its record, depend only on its own
\* velocity entry, its own inventory entry and the policy parameters: they
\* are the same for every other choice of the other skus' sales and inventory.
C5_DecisionIndependentOfOtherSkus ==
    pc = "returned" =>
        \A sku \in {"A", "B"} :
            HasKey(sales_data.items, sku) =>
                \A s \in SalesWithSameEntry(sku), n \in SnapshotsWithSameEntry(sku) :
                    RecordsOf(sku, Generate(s, n)) = RecordsOf(sku, restock_recommendations)

\* the snapshots in which the stock of sku is q and the rest is unchanged:
\* an entry q, or, for q = 0, also no entry
SnapshotsAtLevel(sku, q) ==
    LET rest == SelectSeq(inventory_data.items, LAMBDA it : it.sku # sku) IN
    {Dict(<<Level(sku, q)>> \o rest)} \cup (IF q = 0 THEN {Dict(rest)} ELSE {})

\* C6: a sku recommended at its inventory level is recommended at every lower
\* level (velocity and parameters fixed), level 0 being an entry 0 or no entry.
C6_LowerInventoryStaysTriggered ==
    pc = "returned" /\ Emitted("A", restock_recommendations) =>
        \A q \in 0..(DictGet(inventory_data.items, "A", 0) - 1) :
            \A n \in SnapshotsAtLevel("A", q) : Emitted("A", Generate(sales_data, n))

\* the integers next to n / d, for n >= 0 and d > 0: its floor and its
\* ceiling, between which every rounding to an integer lies
IntegersNextTo(n, d) == {n \div d, (n + d - 1) \div d}

\* C7: the recommended order quantity of a record is
\* max(0, round_to_integer(desired_days_of_cover * avg_daily_sales - current_inventory)),
\* whichever rounding round_to_integer is: 0 when the unrounded quantity is
\* not positive, else an integer next to it (the quantity itself when whole).
C7_OrderQuantityRounded ==
    pc = "returned" =>
        \A i \in 1..Len(restock_recommendations) :
            LET r == restock_recommendations[i]
                v == ItemOf(sales_data.items, r.sku)
                n == desired_days_of_cover * v.total_quantity
                     - r.current_inventory * SellingDays(v)
            IN  IF n <= 0 THEN r.recommended_order_quantity = 0
                ELSE r.recommended_order_quantity \in IntegersNextTo(n, SellingDays(v))

\* C8: every record has recommended_order_quantity >= 0.
C8_OrderQuantityNonNegative ==
    \A i \in 1..Len(restock_recommendations) :
        restock_recommendations[i].recommended_order_quantity >= 0

\* a record of a sku whose stock exceeds the desired inventory level, so that
\* the order quantity computed is negative
C8_Witness ==
    /\ pc = "returned"
    /\ \E i \in 1..Len(restock_recommendations) :
         LET r == restock_recommendations[i]
             v == ItemOf(sales_data.items, r.sku)
         IN  desired_days_of_cover * v.total_quantity < r.current_inventory * SellingDays(v)

\* C9: the sequence returned is non-decreasing in the reported days_of_supply.
C9_SortedByDaysOfSupply ==
    pc = "returned" =>
        \A i \in 1..(Len(restock_recommendations) - 1) :
            restock_recommendations[i].days_of_supply
            <= restock_recommendations[i + 1].days_of_supply

\* two records, the more urgent one of the sku that the loop met second
C9_Witness ==
    /\ pc = "returned"
    /\ Len(restock_recommendations) = 2
    /\ restock_recommendations[1].days_of_supply < restock_recommendations[2].days_of_supply
    /\ sales_data.items[2].sku = restock_recommendations[1].sku

Reverse(s) == [i \in 1..Len(s) |-> s[Len(s) + 1 - i]]

\* the result for the sales mapping with its skus met in the other order
Reordered == Generate(Dict(Reverse(sales_data.items)), inventory_data)

\* C10 as claimed: the output sequence is the same whatever the order in
\* which the skus are met.
C10_OrderIndependent ==
    pc = "returned" => Reordered = restock_recommendations

\* C10 as amended: the skus met in another order give the same records and
\* the same days_of_supply at every position, so that only records of equal
\* days_of_supply change places.
C10_OrderIndependentUpToTies ==
    pc = "returned" =>
        /\ Len(Reordered) = Len(restock_recommendations)
        /\ {Reordered[i] : i \in 1..Len(Reordered)}
           = {restock_recommendations[i] : i \in 1..Len(restock_recommendations)}
        /\ \A i \in 1..Len(Reordered) :
               Reordered[i].days_of_supply = restock_recommendations[i].days_of_supply

\* two skus recommended with the same days_of_supply
C10_Witness ==
    /\ pc = "returned"
    /\ Len(restock_recommendations) = 2
    /\ restock_recommendations[1].days_of_supply = restock_recommendations[2].days_of_supply
    /\ Reordered # restock_recommendations
\* the quantity cell holds the text of an integer
QuantityParses(row) == row.quantity.k = "str" /\ IntOf(row.quantity).err = ""

QuantityOf(row) == IntOf(row.quantity).v

DateParses(row) == row.purchase_date.k = "date"

\* a sales row that is admitted
Admitted(row) ==
    /\ row.status = "Shipped"
    /\ row.sku.k = "str" /\ row.sku.s # ""
    /\ QuantityParses(row) /\ QuantityOf(row) > 0
    /\ DateParses(row)

\* the positions in the sales file of the admitted rows of sku
AdmittedRows(sku) ==
    {i \in 1..Len(sales_file.rows) :
        Admitted(sales_file.rows[i]) /\ sales_file.rows[i].sku.s = sku}

RECURSIVE SumOfQuantities(_)
SumOfQuantities(I) ==
    IF I = {} THEN 0
    ELSE LET i == CHOOSE j \in I : TRUE IN
         QuantityOf(sales_file.rows[i]) + SumOfQuantities(I \ {i})

\* the skus named by the rows of the sales file or by the mapping returned
SkusInSales ==
    {sales_file.rows[i].sku.s :
        i \in {j \in 1..Len(sales_file.rows) : sales_file.rows[j].sku.k = "str"}}
    \cup {sales_data.items[i].sku : i \in 1..Len(sales_data.items)}

\* C11: the mapping returned for a readable sales source holds exactly the
\* skus with an admitted row (Shipped, sku not empty, quantity an integer > 0,
\* date parsed), each with the sum of the quantities of its admitted rows and
\* the set of their calendar dates, the time of day left out.
C11_AggregateIsFoldOfAdmittedRows ==
    pc = "sales_returned" /\ Readable(sales_file) =>
        /\ ~sales_data.none
        /\ \A sku \in SkusInSales :
              IF AdmittedRows(sku) = {} THEN ~HasKey(sales_data.items, sku)
              ELSE /\ HasKey(sales_data.items, sku)
                   /\ ItemOf(sales_data.items, sku).total_quantity
                      = SumOfQuantities(AdmittedRows(sku))
                   /\ ItemOf(sales_data.items, sku).days_sold
                      = {sales_file.rows[i].purchase_date.day : i \in AdmittedRows(sku)}

\* two admitted rows of a sku on one date at different times: one selling day
C11_Witness ==
    /\ pc = "sales_returned" /\ Readable(sales_file)
    /\ \E i, j \in AdmittedRows("A") :
          /\ sales_file.rows[i].purchase_date.day = sales_file.rows[j].purchase_date.day
          /\ sales_file.rows[i].purchase_date.time # sales_file.rows[j].purchase_date.time
    /\ Cardinality(AdmittedRows("A")) = 2
    /\ ItemOf(sales_data.items, "A").total_quantity = 3
    /\ Cardinality(ItemOf(sales_data.items, "A").days_sold) = 1

\* a sales row that is rejected: not shipped, a quantity that is no integer
\* or not positive, a date that does not parse
Rejected(row) ==
    \/ row.status # "Shipped"
    \/ ~QuantityParses(row)
    \/ QuantityOf(row) <= 0
    \/ ~DateParses(row)

\* the sales file without its rejected rows
WithoutRejected(file) ==
    [file EXCEPT !.rows = SelectSeq(@, LAMBDA row : ~Rejected(row))]

\* a row with a valid quantity and a sku whose date does not parse
ValidButForDate(row) ==
    /\ row.status = "Shipped"
    /\ row.sku.k = "str" /\ row.sku.s # ""
    /\ QuantityParses(row) /\ QuantityOf(row) > 0
    /\ ~DateParses(row)

\* C12: a readable sales source with rejected rows parses, without failure,
\* to the mapping of the source with those rows removed; a sku whose only
\* rows have a valid quantity and no parsable date is no key of it.
C12_RejectedRowsLeaveNoTrace ==
    pc = "sales_returned" /\ Readable(sales_file) =>
        /\ ~sales_data.none
        /\ sales_data = parse_sales_data(WithoutRejected(sales_file)).value
        /\ \A i \in 1..Len(sales_file.rows) :
              ValidButForDate(sales_file.rows[i])
              /\ AdmittedRows(sales_file.rows[i].sku.s) = {}
              => ~HasKey(sales_data.items, sales_file.rows[i].sku.s)

\* an admitted row of A around a row of B of quantity 2 and no parsable date
C12_Witness ==
    /\ pc = "sales_returned" /\ Readable(sales_file)
    /\ \E i \in 1..Len(sales_file.rows) :
          ValidButForDate(sales_file.rows[i]) /\ sales_file.rows[i].sku.s = "B"
    /\ AdmittedRows("A") # {}
    /\ ~HasKey(sales_data.items, "B")
    /\ HasKey(sales_data.items, "A")

\* C13: every sku of the mapping returned by parse_sales_data has a selling
\* day and total_quantity > 0, and has an admitted row.
C13_KeysHaveSales ==
    pc = "sales_returned" /\ ~sales_data.none =>
        \A i \in 1..Len(sales_data.items) :
            /\ sales_data.items[i].days_sold # {}
            /\ sales_data.items[i].total_quantity > 0
            /\ AdmittedRows(sales_data.items[i].sku) # {}

\* a row of quantity 0 on a day of its own next to an admitted row of its sku
C13_Witness ==
    /\ pc = "sales_returned" /\ Readable(sales_file)
    /\ \E i \in 1..Len(sales_file.rows) :
          LET row == sales_file.rows[i] IN
          /\ row.status = "Shipped" /\ row.sku.s = "A"
          /\ QuantityParses(row) /\ QuantityOf(row) = 0
          /\ DateParses(row) /\ row.purchase_date.day = 2
    /\ HasKey(sales_data.items, "A")
    /\ ItemOf(sales_data.items, "A").days_sold = {1}
\* an inventory row that is valid: a sku and the text of an integer >= 0
ValidLevel(row) ==
    /\ row.sku.k = "str" /\ row.sku.s # ""
    /\ row.available.k = "str" /\ IntOf(row.available).err = ""
    /\ IntOf(row.available).v >= 0

\* the positions in the inventory file of the valid rows of sku
ValidRows(sku) ==
    {i \in 1..Len(inventory_file.rows) :
        ValidLevel(inventory_file.rows[i]) /\ inventory_file.rows[i].sku.s = sku}

LastOf(I) == CHOOSE i \in I : \A j \in I : j <= i

\* the skus named by the rows of the inventory file or by the snapshot returned
SkusInInventory ==
    {inventory_file.rows[i].sku.s :
        i \in {j \in 1..Len(inventory_file.rows) : inventory_file.rows[j].sku.k = "str"}}
    \cup {inventory_data.items[i].sku : i \in 1..Len(inventory_data.items)}

\* C14: for any rows of a readable inventory source there is a snapshot, and
\* it maps each sku to the quantity of its last valid row; a sku without a
\* valid row is not in it, and invalid rows change nothing.
C14_LastValidRowWins ==
    pc = "inventory_returned" /\ Readable(inventory_file) =>
        /\ ~inventory_data.none
        /\ \A sku \in SkusInInventory :
              IF ValidRows(sku) = {} THEN ~HasKey(inventory_data.items, sku)
              ELSE /\ HasKey(inventory_data.items, sku)
                   /\ ItemOf(inventory_data.items, sku).available
                      = IntOf(inventory_file.rows[LastOf(ValidRows(sku))].available).v

\* an inventory row that is bad: its quantity is negative, is no number, or
\* is empty or missing
BadLevel(row) ==
    \/ row.available.k # "str"
    \/ IntOf(row.available).err # ""
    \/ IntOf(row.available).v < 0

\* the inventory file without its bad rows
WithoutBad(file) ==
    [file EXCEPT !.rows = SelectSeq(@, LAMBDA row : ~BadLevel(row))]

\* C15: a bad row of a readable inventory source is skipped: the parser does
\* not fail and returns the snapshot of the other rows.
C15_BadInventoryRowSkipped ==
    pc = "inventory_returned" /\ Readable(inventory_file) =>
        /\ ~inventory_data.none
        /\ inventory_data = parse_inventory_data(WithoutBad(inventory_file)).value
\* reading the file failed after rows of it had been delivered and folded
PartlyRead(file) == file.exists /\ file.error_at > 1

\* C16: a source whose reading fails after rows were folded gives the failure
\* result, not the rows folded so far, and the run ends without a call of the
\* engine, without a recommendation list and without a saved output.
C16_PartialReadIsFailure ==
    /\ PartlyRead(sales_file) /\ pc # "main" => sales_data = NoneValue
    /\ PartlyRead(inventory_file) /\ pc \in {"inventory_parsed", "done"}
       => inventory_data = NoneValue
    /\ pc = "done" /\ (PartlyRead(sales_file) \/ PartlyRead(inventory_file))
       => /\ engine_calls = 0
          /\ restock_recommendations = <<>>
          /\ ~Printed("Generating restock recommendations with the following settings:")
          /\ ~Printed("Restock recommendations saved")
          /\ Last(stdout) = FailureLine

\* the sales mapping holds a sku, and the reading of the inventory failed
\* after a valid row of that sku
C16_Witness ==
    /\ pc = "done"
    /\ Truthy(sales_data)
    /\ PartlyRead(inventory_file)
    /\ ValidLevel(inventory_file.rows[1])
    /\ HasKey(sales_data.items, inventory_file.rows[1].sku.s)
    /\ inventory_file.rows[1].available.s = Text(<<"0">>)
\* the skus of the snapshot that the sales mapping does not hold
OnlyInInventory ==
    {inventory_data.items[i].sku : i \in 1..Len(inventory_data.items)}
    \ {sales_data.items[i].sku : i \in 1..Len(sales_data.items)}

\* C17: every sku of the output is a key of the sales mapping; a sku of the
\* snapshot only has no record, whatever its quantity, 0 included.
C17_OnlySoldSkusRecommended ==
    pc = "returned" =>
        /\ \A i \in 1..Len(restock_recommendations) :
              HasKey(sales_data.items, restock_recommendations[i].sku)
        /\ \A sku \in OnlyInInventory : ~Emitted(sku, restock_recommendations)

\* A is recommended while B and C, never sold, are in the snapshot at 0
C17_Witness ==
    /\ pc = "returned"
    /\ Emitted("A", restock_recommendations)
    /\ OnlyInInventory = {"B", "C"}
    /\ DictGet(inventory_data.items, "B", 1) = 0
    /\ DictGet(inventory_data.items, "C", 1) = 0

\* the sales mapping without its entries of no quantity or no selling day
SellingOnly == Dict(SelectSeq(sales_data.items, Sells))

\* C18: an entry with total_quantity 0 or without a selling day has no
\* record, and the output is the one of the mapping without such entries:
\* the other skus are evaluated as they would be without it.
C18_ZeroVelocitySkipped ==
    pc = "returned" =>
        /\ \A i \in 1..Len(sales_data.items) :
              ~Sells(sales_data.items[i])
              => ~Emitted(sales_data.items[i].sku, restock_recommendations)
        /\ restock_recommendations = Generate(SellingOnly, inventory_data)

\* an entry without a selling day, met first, and another sku recommended
C18_Witness ==
    /\ pc = "returned"
    /\ Len(sales_data.items) = 2
    /\ sales_data.items[1].days_sold = {}
    /\ sales_data.items[1].total_quantity > 0
    /\ ~Emitted(sales_data.items[1].sku, restock_recommendations)
    /\ Emitted(sales_data.items[2].sku, restock_recommendations)

\* C19: a call of the engine that returns after another on the same mapping,
\* snapshot and parameters returns the sequence the call before returned
\* (same records, same fields, same order), and no step of a call changes
\* the mapping, the snapshot or the parameters.
C19_SecondRunIdentical ==
    [][/\ engine_calls >= 1 /\ pc' = "returned"
          => restock_recommendations' = restock_recommendations
       /\ sales_data' = sales_data
       /\ inventory_data' = inventory_data
       /\ lead_time_days' = lead_time_days
       /\ safety_stock_days' = safety_stock_days
       /\ desired_days_of_cover' = desired_days_of_cover]_vars

\* two records returned by a second call, which sorted them into another
\* order than its loop met them
C19_Witness ==
    /\ pc = "returned"
    /\ engine_calls = 2
    /\ Len(restock_recommendations) = 2
    /\ restock_recommendations[1].sku = sales_data.items[2].sku

\* lead_time_days * avg + safety_stock_days * avg as the engine computes it,
\* unrounded, for an entry with sales
FullPrecisionReorderPoint(v) ==
    LET avg == TrueDiv(v.total_quantity, SellingDays(v)) IN
    FloatAdd(FloatMulInt(lead_time_days, avg), FloatMulInt(safety_stock_days, avg))

\* desired_days_of_cover * avg - current_inventory, unrounded
FullPrecisionOrderQuantity(v, q) ==
    FloatSub(FloatMulInt(desired_days_of_cover, TrueDiv(v.total_quantity, SellingDays(v))),
             FloatFromInt(q))

\* C20: an entry with sales is recommended
\* exactly when its inventory is below the unrounded reorder point, also when
\* the reorder point reported, rounded to 2 decimals, equals the inventory;
\* the order quantity comes from the unrounded values as well, and the three
\* reported numbers are the unrounded ones rounded to 2 decimals.
C20_TriggerOnUnroundedValues ==
    pc = "returned" =>
        \A i \in 1..Len(sales_data.items) :
            LET v == sales_data.items[i]
                q == DictGet(inventory_data.items, v.sku, 0)
            IN  Sells(v) =>
                /\ Emitted(v.sku, restock_recommendations)
                   <=> FloatCmp(FloatFromInt(q), FullPrecisionReorderPoint(v)) < 0
                /\ \A r \in RecordsOf(v.sku, restock_recommendations) :
                      /\ r.reorder_point = Round2(FullPrecisionReorderPoint(v))
                      /\ r.avg_daily_sales = Round2(TrueDiv(v.total_quantity, SellingDays(v)))
                      /\ r.days_of_supply
                         = Round2(DaysOfSupply(q, v.total_quantity, SellingDays(v)))
                      /\ r.recommended_order_quantity
                         = RecommendedOrderQuantity(FullPrecisionOrderQuantity(v, q))

\* the position in the sales file of the first admitted row of sku
FirstAdmitted(sku) == CHOOSE i \in AdmittedRows(sku) : \A j \in AdmittedRows(sku) : i <= j

\* C21: two records of the run's output with equal days_of_supply stand in
\* the order in which their skus were first admitted from the sales rows.
C21_TiesInInputOrder ==
    pc = "done" =>
        \A i, j \in 1..Len(restock_recommendations) :
            i < j /\ restock_recommendations[i].days_of_supply
                     = restock_recommendations[j].days_of_supply
            => FirstAdmitted(restock_recommendations[i].sku)
               < FirstAdmitted(restock_recommendations[j].sku)

\* B admitted before A, both with the same days_of_supply: B stands first
C21_Witness ==
    /\ pc = "done"
    /\ Len(restock_recommendations) = 2
    /\ restock_recommendations[1].days_of_supply = restock_recommendations[2].days_of_supply
    /\ restock_recommendations[1].sku = "B"
    /\ restock_recommendations[2].sku = "A"
\* n / d rounded to 2 decimals, in hundredths, a tie to the even hundredth
RoundedTo2Decimals(n, d) ==
    LET f == (100 * n) \div d
        r == (100 * n) % d
    IN  IF 2 * r > d \/ (2 * r = d /\ f % 2 = 1) THEN f + 1 ELSE f

\* C22: every record reports the snapshot value of its sku (0 if absent) as
\* current_inventory, total_quantity / number of distinct selling days as
\* avg_daily_sales, (lead_time_days + safety_stock_days) * avg_daily_sales as
\* reorder_point and current_inventory / avg_daily_sales as days_of_supply,
\* each the exact quotient rounded to 2 decimals.
C22_ReportedValuesFollowFormulas ==
    pc = "returned" =>
        \A i \in 1..Len(restock_recommendations) :
            LET r == restock_recommendations[i]
                v == ItemOf(sales_data.items, r.sku)
                q == DictGet(inventory_data.items, r.sku, 0)
            IN  /\ r.current_inventory = q
                /\ r.avg_daily_sales = RoundedTo2Decimals(v.total_quantity, SellingDays(v))
                /\ r.reorder_point
                   = RoundedTo2Decimals((lead_time_days + safety_stock_days) * v.total_quantity,
                                        SellingDays(v))
                /\ r.days_of_supply = RoundedTo2Decimals(q * SellingDays(v), v.total_quantity)

\* the example: 20 over 2 days, inventory 50, 21/10/45 gives 10, 310, 5 and 400
C22_Witness ==
    /\ pc = "returned"
    /\ WorkedExample
    /\ restock_recommendations
       = << [sku |-> "A", avg_daily_sales |-> 1000, current_inventory |-> 50,
             days_of_supply |-> 500, reorder_point |-> 31000,
             recommended_order_quantity |-> 400, recommendation |-> 310] >>
\* desired_days_of_cover * avg_daily_sales <= current_inventory
CoveredByStock(v, q) == desired_days_of_cover * v.total_quantity <= q * SellingDays(v)

\* C23: a sku with sales whose inventory (0 if absent) is below its reorder
\* point and at or above its desired inventory level has a record, and the
\* record's recommended_order_quantity is 0.
C23_TriggeredWithZeroOrderEmitted ==
    pc = "returned" =>
        \A i \in 1..Len(sales_data.items) :
            LET v == sales_data.items[i]
                q == DictGet(inventory_data.items, v.sku, 0)
            IN  Sells(v) /\ BelowExactReorderPoint(v, q) /\ CoveredByStock(v, q)
                => /\ Emitted(v.sku, restock_recommendations)
                   /\ \A r \in RecordsOf(v.sku, restock_recommendations) :
                         r.recommended_order_quantity = 0
\* C24: every record is of a sku with avg_daily_sales > 0 whose
\* current_inventory is below the reorder point as computed, before its
\* rounding to 2 decimals.
C24_RecordsAreBelowReorderPoint ==
    pc = "returned" =>
        \A i \in 1..Len(restock_recommendations) :
            LET r == restock_recommendations[i]
                v == ItemOf(sales_data.items, r.sku)
            IN  /\ Sells(v)
                /\ FloatCmp(FloatFromInt(r.current_inventory), FullPrecisionReorderPoint(v)) < 0

\* a record of a sku one unit below a reorder point that is a whole number
C24_Witness ==
    /\ pc = "returned"
    /\ \E i \in 1..Len(restock_recommendations) :
          /\ restock_recommendations[i].reorder_point
             = 100 * (restock_recommendations[i].current_inventory + 1)
          /\ restock_recommendations[i].current_inventory > 0
\* C26: every record's days of supply as computed, before its rounding, is
\* strictly smaller than lead_time_days + safety_stock_days.
C26_SupplyBelowLeadPlusSafety ==
    pc = "returned" =>
        \A i \in 1..Len(restock_recommendations) :
            LET r == restock_recommendations[i]
                v == ItemOf(sales_data.items, r.sku)
            IN  FloatCmp(DaysOfSupply(r.current_inventory, v.total_quantity, SellingDays(v)),
                         FloatFromInt(lead_time_days + safety_stock_days)) < 0

\* C27: with lead_time_days = 0 and safety_stock_days = 0 the engine returns
\* the empty sequence, whatever the sales mapping and the snapshot.
C27_NoReorderPointNoOutput ==
    pc = "returned" /\ lead_time_days = 0 /\ safety_stock_days = 0
        => restock_recommendations = <<>>

\* two skus with sales and a snapshot entry of 0, and both parameters 0
C27_Witness ==
    /\ pc = "returned" /\ lead_time_days = 0 /\ safety_stock_days = 0
    /\ Len(sales_data.items) = 2
    /\ \A i \in 1..2 :
          /\ Sells(sales_data.items[i])
          /\ HasKey(inventory_data.items, sales_data.items[i].sku)
          /\ DictGet(inventory_data.items, sales_data.items[i].sku, 1) = 0
\* current_inventory / avg_daily_sales of a record as computed, unrounded
FullPrecisionDaysOfSupply(r) ==
    LET v == ItemOf(sales_data.items, r.sku) IN
    DaysOfSupply(r.current_inventory, v.total_quantity, SellingDays(v))

\* C25: of any two records of the output the earlier one's days of supply as
\* computed, before its rounding, is <= the later one's.
C25_OrderedByUnroundedSupply ==
    pc = "returned" =>
        \A i, j \in 1..Len(restock_recommendations) :
            i < j => FloatCmp(FullPrecisionDaysOfSupply(restock_recommendations[i]),
                              FullPrecisionDaysOfSupply(restock_recommendations[j])) <= 0
\* C28: the output holds at most one record per sku, and no more records
\* than the sales mapping has skus.
C28_OneRecordPerSku ==
    pc = "returned" =>
        /\ \A i, j \in 1..Len(restock_recommendations) :
              restock_recommendations[i].sku = restock_recommendations[j].sku => i = j
        /\ Len(restock_recommendations) <= Len(sales_data.items)

\* every sku of a mapping of two has its record
C28_Witness ==
    /\ pc = "returned"
    /\ Len(sales_data.items) = 2
    /\ Len(restock_recommendations) = 2
    /\ restock_recommendations[1].sku # restock_recommendations[2].sku

\* C29: a call of the engine leaves the sales mapping and the inventory
\* snapshot as they were: no key is added, none removed, no value changed.
C29_InputsUnchanged ==
    [][pc = "call" => sales_data' = sales_data /\ inventory_data' = inventory_data]_vars

\* a record of a sku that the snapshot did not hold, and still does not
C29_Witness ==
    /\ pc = "returned"
    /\ \E i \in 1..Len(restock_recommendations) :
          ~HasKey(inventory_data.items, restock_recommendations[i].sku)
    /\ inventory_data.items # <<>>
    /\ \A i \in 1..Len(sales_data.items) : Sells(sales_data.items[i])

\* C30: the step of the run that saves an empty recommendation sequence
\* leaves the output file as it was, held or not held before.
C30_EmptyListLeavesOutputFile ==
    [][pc = "inventory_parsed" /\ pc' = "done" /\ restock_recommendations' = <<>>
       => output_file' = output_file]_vars

\* a run through the engine that recommended nothing: the output of an
\* earlier run is still in the file, which could have been written
C30_Witness ==
    /\ pc = "done"
    /\ engine_calls = 1
    /\ restock_recommendations = <<>>
    /\ output_writable
    /\ output_file = EarlierOutput
    /\ Last(stdout) = NothingToReportLine
====
